---- MODULE Spec2Model ----
(***************************************************************************)
(* Chow-Liu tree learning (cirkit/templates/region_graph/algorithms/       *)
(* chow_liu.py): the orchestrator ChowLiuTree, the categorical and         *)
(* heterogeneous mutual-information estimators and the maximum spanning    *)
(* tree builder, as state machines over small inputs.                      *)
(*                                                                         *)
(* Real numbers are kept exact: a probability is an integer numerator over *)
(* a common positive denominator, and a mutual-information entry is a      *)
(* record saying whether it is zero, finite, infinite or NaN together with *)
(* the quantities it is computed from.  Floating-point rounding is not     *)
(* modelled.                                                               *)
(***************************************************************************)
EXTENDS Integers, Sequences, FiniteSets

VARIABLES
    pc,             \* position of the running call
    adj_matrix,     \* _maximum_spanning_tree: the adj_matrix argument
    root,           \* the root argument: None or Some(index)
    mst,            \* entries kept by minimum_spanning_tree: [e -> cost]
    i_start,        \* the root after lines 85-89, where the traversal starts
    tree,           \* the predecessor array
    bfs,            \* the breadth-first order
    data,           \* the data matrix: a sequence of rows
    num_categories, \* the num_categories argument: None or Some(K)
    chunk_size,     \* the chunk_size argument: None or Some(C)
    rows_done,      \* rows of data the chunk loop has consumed
    joint_counts,   \* [<<i, j, a * K + b>> -> count]
    marginals,      \* numerators of the smoothed marginals, [<<i, a>> -> num]
    joints,         \* numerators of the smoothed joints, [<<i, j, a, b>> -> num]
    outers,         \* numerators of the marginal products, [<<i, j, a, b>> -> num]
    mutual_info,    \* the mutual information matrix, entries as MI values
    data_ndim,      \* data.ndim
    input_type,     \* the input_type argument: a tag or a list of layers
    num_bins,       \* the num_bins argument: None or Some(B)
    outcome,        \* "running", or the exception the call raised
    ran             \* the estimators and the tree builder entered so far

treevars == <<adj_matrix, mst, i_start, tree, bfs>>
catvars == <<rows_done, joint_counts, marginals, joints, outers>>
orchvars == <<data_ndim, input_type, num_bins, outcome, ran>>
vars == <<pc, root, treevars, data, num_categories, chunk_size, catvars, mutual_info, orchvars>>

(* Optional arguments (Python's None). *)
None == <<>>
Some(x) == <<x>>
Val(o) == o[1]

(***************************************************************************)
(* Bounds of the model.                                                    *)
(***************************************************************************)
MaxN == 4
(* The weights a matrix over n features draws from: three values up to four
   features, two beyond, which keeps the matrices over five features few. *)
Weights(n) == IF n <= 4 THEN {0, 1, 2} ELSE {0, 1}
(* Chain-shaped matrices: neighbouring features share information, all other
   pairs are independent. *)
ChainN == 5
ChainWeights == 1 .. 4

SetMax(S) == CHOOSE x \in S : \A y \in S : y <= x
SetMin(S) == CHOOSE x \in S : \A y \in S : x <= y

nontree == <<data, num_categories, chunk_size, catvars, mutual_info, orchvars>>

(* input_type: a single tag, or a list of input layers given by their names *)
Tag(t) == [list |-> FALSE, tag |-> t, layers |-> <<>>]
Layers(l) == [list |-> TRUE, tag |-> "", layers |-> l]

(* The orchestrator's arguments when an inner function is entered directly. *)
OrchIdle ==
    /\ data_ndim = 2
    /\ input_type = Tag("categorical")
    /\ num_bins = None
    /\ outcome = "running"
    /\ ran = {}

(* The estimator's locals before it has run. *)
CatIdle ==
    /\ rows_done = 0
    /\ joint_counts = <<>>
    /\ marginals = <<>>
    /\ joints = <<>>
    /\ outers = <<>>

(***************************************************************************)
(* _maximum_spanning_tree                                                  *)
(***************************************************************************)
NumNodes(adj) == Len(adj)
Nodes(adj) == 0 .. (NumNodes(adj) - 1)
At(adj, i, j) == adj[i + 1][j + 1]

(* line 84: the cost handed to minimum_spanning_tree *)
CostNoShift(w) == -w
Cost(w) == -(w + 1)

(* scipy reads a dense matrix as a graph whose zero entries are no edges. *)
GraphEntries(adj) ==
    {e \in Nodes(adj) \X Nodes(adj) : Cost(At(adj, e[1], e[2])) # 0}

(* The entries in the order Kruskal's algorithm takes them: by ascending
   cost, and row by row among equal costs. *)
RowMajor(adj) ==
    [k \in 1 .. (NumNodes(adj) * NumNodes(adj)) |->
        <<(k - 1) \div NumNodes(adj), (k - 1) % NumNodes(adj)>>]

EntriesWithCost(adj, c) ==
    SelectSeq(RowMajor(adj),
              LAMBDA e : e \in GraphEntries(adj) /\ Cost(At(adj, e[1], e[2])) = c)

CostLevels(adj) == {Cost(At(adj, e[1], e[2])) : e \in GraphEntries(adj)}

RECURSIVE DescendingEntries(_, _)
DescendingEntries(adj, levels) ==
    IF levels = {} THEN <<>>
    ELSE EntriesWithCost(adj, SetMax(levels))
             \o DescendingEntries(adj, levels \ {SetMax(levels)})

RECURSIVE AscendingEntries(_, _)
AscendingEntries(adj, levels) ==
    IF levels = {} THEN <<>>
    ELSE EntriesWithCost(adj, SetMin(levels))
             \o AscendingEntries(adj, levels \ {SetMin(levels)})

SortedEntriesReversed(adj) == DescendingEntries(adj, CostLevels(adj))
SortedEntries(adj) == AscendingEntries(adj, CostLevels(adj))

(* Kruskal's algorithm over the entries in that order; comp is the partition
   of the nodes into the components joined so far. *)
ComponentOf(comp, v) == CHOOSE c \in comp : v \in c

RECURSIVE Kruskal(_, _, _)
Kruskal(order, comp, kept) ==
    IF order = <<>> THEN kept
    ELSE LET e == Head(order)
             r1 == ComponentOf(comp, e[1])
             r2 == ComponentOf(comp, e[2])
         IN  IF r1 # r2
             THEN Kruskal(Tail(order), (comp \ {r1, r2}) \cup {r1 \cup r2}, kept \cup {e})
             ELSE Kruskal(Tail(order), comp, kept)

(* line 84: the kept entries, each with its cost *)
MinimumSpanningTree(adj) ==
    LET kept == Kruskal(SortedEntries(adj), {{v} : v \in Nodes(adj)}, {})
    IN  [e \in kept |-> Cost(At(adj, e[1], e[2]))]

(* lines 86-88: abs(mst) as an undirected weighted graph *)
Abs(x) == IF x < 0 THEN -x ELSE x
Linked(m, u, v) == <<u, v>> \in DOMAIN m \/ <<v, u>> \in DOMAIN m
EdgeLengthUnit(m, u, v) == 1
EdgeLength(m, u, v) ==
    IF <<u, v>> \in DOMAIN m THEN Abs(m[<<u, v>>]) ELSE Abs(m[<<v, u>>])

(* The length no path reaches: the distance of an unreachable node. *)
Infinity(adj) ==
    NumNodes(adj) * SetMax({Abs(Cost(At(adj, u, v))) : u \in Nodes(adj), v \in Nodes(adj)}) + 1

(* The shortest length of a path from u to v that avoids the nodes seen. *)
RECURSIVE PathLength(_, _, _, _, _)
PathLength(adj, m, u, v, seen) ==
    IF u = v THEN 0
    ELSE LET via == {x \in Nodes(adj) \ seen : Linked(m, u, x)}
             lens == {EdgeLength(m, u, x) + PathLength(adj, m, x, v, seen \cup {x}) : x \in via}
         IN  IF lens = {} THEN Infinity(adj)
             ELSE IF SetMin(lens) > Infinity(adj) THEN Infinity(adj) ELSE SetMin(lens)

(* lines 86-88: all-pairs shortest path lengths *)
Dijkstra(adj, m) ==
    [u \in Nodes(adj) |-> [v \in Nodes(adj) |-> PathLength(adj, m, u, v, {u})]]

(* line 89: np.argmin(np.max(dist, axis=1)), the first index of the minimum *)
Eccentricity(adj, d, u) == SetMax({d[u][v] : v \in Nodes(adj)})
ArgMinMax(adj, d) ==
    SetMin({u \in Nodes(adj) :
               \A v \in Nodes(adj) : Eccentricity(adj, d, u) <= Eccentricity(adj, d, v)})

(* lines 85-89 *)
ChooseRoot(adj, m, r) ==
    IF r = None THEN ArgMinMax(adj, Dijkstra(adj, m)) ELSE Val(r)

(* lines 90-92: breadth_first_order; a node never reached keeps -9999 *)
Unreached == -9999

RECURSIVE SortedSeq(_)
SortedSeq(S) == IF S = {} THEN <<>> ELSE <<SetMin(S)>> \o SortedSeq(S \ {SetMin(S)})

RECURSIVE BreadthFirst(_, _, _, _, _)
BreadthFirst(adj, m, queue, order, pred) ==
    IF queue = <<>> THEN [bfs |-> order, tree |-> pred]
    ELSE LET u == Head(queue)
             fresh == {v \in Nodes(adj) :
                          /\ Linked(m, u, v)
                          /\ pred[v + 1] = Unreached
                          /\ \A k \in 1 .. Len(order) : order[k] # v}
             new == SortedSeq(fresh)
         IN  BreadthFirst(adj, m, Tail(queue) \o new, order \o new,
                          [k \in 1 .. NumNodes(adj) |->
                              IF (k - 1) \in fresh THEN u ELSE pred[k]])

BreadthFirstOrder(adj, m, r) ==
    BreadthFirst(adj, m, <<r>>, <<r>>, [k \in 1 .. NumNodes(adj) |-> Unreached])

(* line 93 *)
SetRootKeep(t, r) == t
SetRoot(t, r) == [t EXCEPT ![r + 1] = -1]

(* lines 84-94, the whole function *)
MaximumSpanningTree(adj, r) ==
    LET m == MinimumSpanningTree(adj)
        r0 == ChooseRoot(adj, m, r)
        b == BreadthFirstOrder(adj, m, r0)
    IN  [bfs |-> b.bfs, tree |-> SetRoot(b.tree, r0)]

(* Symmetric matrices with a zero diagonal over n features. *)
UpperPairs(n) == {e \in (0 .. (n - 1)) \X (0 .. (n - 1)) : e[1] < e[2]}
SymmetricMatrix(n, f) ==
    [i \in 1 .. n |-> [j \in 1 .. n |->
        IF i = j THEN 0 ELSE IF i < j THEN f[<<i - 1, j - 1>>] ELSE f[<<j - 1, i - 1>>]]]

InitTree ==
    /\ pc = "mst"
    /\ \E n \in 1 .. MaxN :
          /\ \E f \in [UpperPairs(n) -> Weights(n)] : adj_matrix = SymmetricMatrix(n, f)
          /\ root \in {None} \cup {Some(r) : r \in 0 .. (n - 1)}
    /\ mst = <<>>
    /\ i_start = None
    /\ tree = <<>>
    /\ bfs = <<>>
    /\ data = <<>>
    /\ num_categories = None
    /\ chunk_size = None
    /\ CatIdle
    /\ mutual_info = <<>>
    /\ OrchIdle

(* line 84 *)
RunMinimumSpanningTree ==
    /\ pc = "mst"
    /\ mst' = MinimumSpanningTree(adj_matrix)
    /\ pc' = "root"
    /\ UNCHANGED <<adj_matrix, root, i_start, tree, bfs, nontree>>

(* lines 85-89 *)
SelectRoot ==
    /\ pc = "root"
    /\ i_start' = Some(ChooseRoot(adj_matrix, mst, root))
    /\ pc' = "bfs"
    /\ UNCHANGED <<adj_matrix, root, mst, tree, bfs, nontree>>

(* lines 90-94 *)
RunBreadthFirstOrder ==
    /\ pc = "bfs"
    /\ LET b == BreadthFirstOrder(adj_matrix, mst, Val(i_start))
       IN  /\ bfs' = b.bfs
           /\ tree' = SetRoot(b.tree, Val(i_start))
    /\ pc' = "tree_done"
    /\ UNCHANGED <<adj_matrix, root, mst, i_start, nontree>>

NextTree == RunMinimumSpanningTree \/ SelectRoot \/ RunBreadthFirstOrder

SpecTree == InitTree /\ [][NextTree]_vars

InitChain ==
    /\ pc = "mst"
    /\ \E f \in [{e \in UpperPairs(ChainN) : e[2] = e[1] + 1} -> ChainWeights] :
          adj_matrix = SymmetricMatrix(ChainN,
              [e \in UpperPairs(ChainN) |-> IF e[2] = e[1] + 1 THEN f[e] ELSE 0])
    /\ root = None
    /\ mst = <<>>
    /\ i_start = None
    /\ tree = <<>>
    /\ bfs = <<>>
    /\ data = <<>>
    /\ num_categories = None
    /\ chunk_size = None
    /\ CatIdle
    /\ mutual_info = <<>>
    /\ OrchIdle

SpecChain == InitChain /\ [][NextTree]_vars

(***************************************************************************)
(* Properties of _maximum_spanning_tree                                    *)
(***************************************************************************)
RECURSIVE ReachesRoot(_, _, _)
ReachesRoot(t, v, steps) ==
    IF t[v + 1] = -1 THEN TRUE
    ELSE IF steps = 0 \/ t[v + 1] \notin 0 .. (Len(t) - 1) THEN FALSE
    ELSE ReachesRoot(t, t[v + 1], steps - 1)

(* C1: the returned predecessor array has exactly one entry -1, every other
   entry is a node index, and the parent links lead from every node to the
   -1 node in at most n-1 steps. *)
C1_SingleRootedTree ==
    pc = "tree_done" =>
        LET n == NumNodes(adj_matrix) IN
        /\ Len(tree) = n
        /\ Cardinality({k \in 1 .. n : tree[k] = -1}) = 1
        /\ \A k \in 1 .. n : tree[k] = -1 \/ tree[k] \in 0 .. (n - 1)
        /\ \A v \in 0 .. (n - 1) : ReachesRoot(tree, v, n - 1)

C1_Witness ==
    /\ pc = "tree_done"
    /\ NumNodes(adj_matrix) = 4
    /\ root = None
    /\ \E i \in 0 .. 3, j \in 0 .. 3 : i # j /\ At(adj_matrix, i, j) = 0
    /\ \E v \in 0 .. 3 : tree[v + 1] # -1 /\ tree[tree[v + 1] + 1] # -1

(* The undirected edges of a predecessor array. *)
TreeEdges(t) ==
    {{k - 1, t[k]} : k \in {x \in 1 .. Len(t) : t[x] # -1}}

RECURSIVE TotalWeight(_, _)
TotalWeight(adj, E) ==
    IF E = {} THEN 0
    ELSE LET e == CHOOSE x \in E : TRUE
             u == SetMin(e)
             v == SetMax(e)
         IN  At(adj, u, v) + TotalWeight(adj, E \ {e})

(* C3: a forced root r gets predecessor -1, and every other forced root
   yields the same undirected tree, hence the same total weight. *)
C3_RootOnlyReorients ==
    (pc = "tree_done" /\ root # None) =>
        /\ tree[Val(root) + 1] = -1
        /\ \A r2 \in Nodes(adj_matrix) :
              LET other == MaximumSpanningTree(adj_matrix, Some(r2)).tree
              IN  /\ other[r2 + 1] = -1
                  /\ TreeEdges(other) = TreeEdges(tree)
                  /\ TotalWeight(adj_matrix, TreeEdges(other))
                       = TotalWeight(adj_matrix, TreeEdges(tree))

C3_Witness ==
    /\ pc = "tree_done"
    /\ NumNodes(adj_matrix) = 4
    /\ root = Some(3)
    /\ tree[4] = -1
    /\ MaximumSpanningTree(adj_matrix, Some(0)).tree # tree

(* The spanning trees of the complete graph over the nodes of adj. *)
RECURSIVE Closure(_, _)
Closure(E, S) ==
    LET more == {v \in UNION E : \E e \in E : v \in e /\ e \cap S # {}} \ S
    IN  IF more = {} THEN S ELSE Closure(E, S \cup more)

SpanningTrees(adj) ==
    LET all == {{e[1], e[2]} : e \in UpperPairs(NumNodes(adj))}
    IN  {E \in SUBSET all :
            /\ Cardinality(E) = NumNodes(adj) - 1
            /\ Closure(E, {0}) = Nodes(adj)}

MstEdges(m) == {{e[1], e[2]} : e \in DOMAIN m}

(* C4: every pair of distinct nodes has a strictly negative cost and is an
   entry of the graph, and the tree kept has n-1 edges whose total weight is
   the largest of any spanning tree of the complete graph. *)
C4_MaximumWeightTree ==
    pc = "root" =>
        LET n == NumNodes(adj_matrix) IN
        /\ \A i \in Nodes(adj_matrix), j \in Nodes(adj_matrix) :
              i # j => /\ Cost(At(adj_matrix, i, j)) < 0
                       /\ <<i, j>> \in GraphEntries(adj_matrix)
        /\ Cardinality(DOMAIN mst) = n - 1
        /\ Cardinality(MstEdges(mst)) = n - 1
        /\ Closure(MstEdges(mst), {0}) = Nodes(adj_matrix)
        /\ \A T \in SpanningTrees(adj_matrix) :
              TotalWeight(adj_matrix, T) <= TotalWeight(adj_matrix, MstEdges(mst))

C4_Witness ==
    /\ pc = "root"
    /\ NumNodes(adj_matrix) = 4
    /\ \E i \in 0 .. 3, j \in 0 .. 3 : i # j /\ At(adj_matrix, i, j) = 0
    /\ TotalWeight(adj_matrix, MstEdges(mst)) = 5
    /\ \E T \in SpanningTrees(adj_matrix) : TotalWeight(adj_matrix, T) = 0

(* The number of edges on the shortest path from u to v in the tree m. *)
RECURSIVE Hops(_, _, _, _, _)
Hops(adj, m, u, v, seen) ==
    IF u = v THEN 0
    ELSE LET via == {x \in Nodes(adj) \ seen : Linked(m, u, x)}
             lens == {1 + Hops(adj, m, x, v, seen \cup {x}) : x \in via}
         IN  IF lens = {} THEN NumNodes(adj) ELSE SetMin(lens)

Depth(adj, m, u) == SetMax({Hops(adj, m, u, v, {u}) : v \in Nodes(adj)})

(* C10: with root None, the root selected has the least eccentricity, counted
   in edges, of all nodes of the spanning tree. *)
C10_RootMinimizesDepth ==
    (pc = "bfs" /\ root = None) =>
        \A v \in Nodes(adj_matrix) :
            Depth(adj_matrix, mst, Val(i_start)) <= Depth(adj_matrix, mst, v)

(***************************************************************************)
(* Mutual information values.  An entry is zero, finite, infinite or NaN;  *)
(* a finite entry carries the exact quantities it is computed from.        *)
(***************************************************************************)
Zero == [kind |-> "zero", of |-> <<>>]
Fin(x) == [kind |-> "fin", of |-> x]
Inf == [kind |-> "inf", of |-> <<>>]
NaN == [kind |-> "nan", of |-> <<>>]

(* Tensor.fill_diagonal_(0) on a square matrix of MI values *)
FillDiagonalZero(m) ==
    [i \in 1 .. Len(m) |-> [j \in 1 .. Len(m) |-> IF i = j THEN Zero ELSE m[i][j]]]

(***************************************************************************)
(* _categorical_mutual_info                                                *)
(***************************************************************************)
MaxSamples == 3
FeatureCounts == {1, 2}
Codes == {0, 1}
CategoryCounts == {2, 3}

(* line 99: alpha = 0.01 = AlphaNum / AlphaDen *)
AlphaNum == 1
AlphaDen == 100

NumSamples(d) == Len(d)
NumFeatures(d) == Len(d[1])
Features(d) == 0 .. (NumFeatures(d) - 1)
Entry(d, s, i) == d[s][i + 1]
MaxEntry(d, cols) == SetMax({Entry(d, s, i) : s \in 1 .. Len(d), i \in cols})

(* lines 117-118 *)
NumCategoriesOf(d, nc) == IF nc = None THEN MaxEntry(d, Features(d)) + 1 ELSE Val(nc)
(* lines 119-120 *)
ChunkSizeOf(d, cs) == IF cs = None THEN NumSamples(d) ELSE Val(cs)

(* lines 125-127 *)
ZeroCounts(d, K) == [t \in Features(d) \X Features(d) \X (0 .. (K * K - 1)) |-> 0]

(* line 128: the rows of the chunk that follows `done` rows *)
ChunkRowsWhole(d, done, C) ==
    IF done + C > NumSamples(d) THEN {} ELSE (done + 1) .. (done + C)
ChunkRows(d, done, C) ==
    (done + 1) .. (IF done + C > NumSamples(d) THEN NumSamples(d) ELSE done + C)

(* line 129 *)
JointValue(d, s, i, j, K) == Entry(d, s, i) * K + Entry(d, s, j)

(* line 130: scatter_add_ of ones at the joint values of the chunk's rows *)
ScatterAdd(counts, d, rows, K) ==
    [t \in DOMAIN counts |->
        counts[t] + Cardinality({s \in rows : JointValue(d, s, t[1], t[2], K) = t[3]})]

(* lines 128-130: the whole loop *)
RECURSIVE CountChunks(_, _, _, _, _)
CountChunks(counts, d, done, C, K) ==
    IF done >= NumSamples(d) THEN counts
    ELSE CountChunks(ScatterAdd(counts, d, ChunkRows(d, done, C), K), d, done + C, C, K)

(* line 131: view(n_features, n_features, K, K) *)
View(counts, i, j, a, b, K) == counts[<<i, j, a * K + b>>]
(* line 132 *)
MarginalCount(counts, i, a, K) == View(counts, i, i, a, a, K)

(* lines 134-136: numerator over Denominator *)
Denominator(d, K) == NumSamples(d) * AlphaDen + K * K * AlphaNum
Marginals(counts, d, K) ==
    [t \in Features(d) \X (0 .. (K - 1)) |->
        MarginalCount(counts, t[1], t[2], K) * AlphaDen + K * AlphaNum]

(* line 137 *)
SmoothNoAlpha(c) == c * AlphaDen
Smooth(c) == c * AlphaDen + AlphaNum

(* lines 137-140: smoothed joints with the diagonal blocks overwritten by
   diag_embed(marginals), which is zero off its diagonal *)
Joints(counts, d, K) ==
    LET m == Marginals(counts, d, K) IN
    [t \in Features(d) \X Features(d) \X (0 .. (K - 1)) \X (0 .. (K - 1)) |->
        IF t[1] = t[2]
        THEN IF t[3] = t[4] THEN m[<<t[1], t[3]>>] ELSE 0
        ELSE Smooth(View(counts, t[1], t[2], t[3], t[4], K))]

(* line 141: einsum("ik,jl->ijkl"), numerator over Denominator squared *)
Outers(counts, d, K) ==
    LET m == Marginals(counts, d, K) IN
    [t \in Features(d) \X Features(d) \X (0 .. (K - 1)) \X (0 .. (K - 1)) |->
        m[<<t[1], t[3]>>] * m[<<t[2], t[4]>>]]

(* line 143: sum over (a, b) of joints * (joints.log() - outers.log()) *)
KLSum(jn, on, i, j, K) ==
    LET cells == (0 .. (K - 1)) \X (0 .. (K - 1))
        term(c) == <<jn[<<i, j, c[1], c[2]>>], on[<<i, j, c[1], c[2]>>]>>
        terms == {term(c) : c \in cells}
    IN  IF \E c \in cells : term(c)[1] = 0 THEN NaN
        ELSE IF \E c \in cells : term(c)[2] = 0 THEN Inf
        ELSE Fin([t \in terms |-> Cardinality({c \in cells : term(c) = t})])

(* line 143 *)
MutualInfoOf(jn, on, d, K) ==
    FillDiagonalZero([i \in 1 .. NumFeatures(d) |-> [j \in 1 .. NumFeatures(d) |->
                         KLSum(jn, on, i - 1, j - 1, K)]])

(* lines 115-143, the whole function *)
CategoricalMutualInfo(d, nc, cs) ==
    LET K == NumCategoriesOf(d, nc)
        counts == CountChunks(ZeroCounts(d, K), d, 0, ChunkSizeOf(d, cs), K)
    IN  MutualInfoOf(Joints(counts, d, K), Outers(counts, d, K), d, K)

DataMatrices(samples, features, values) ==
    [1 .. samples -> [1 .. features -> values]]

InitCount ==
    /\ pc = "cat"
    /\ \E n \in 1 .. MaxSamples, f \in FeatureCounts :
          /\ data \in DataMatrices(n, f, Codes)
          /\ chunk_size \in {None} \cup {Some(c) : c \in 1 .. n}
    /\ num_categories \in
          {None} \cup {Some(k) : k \in {x \in CategoryCounts : x > MaxEntry(data, Features(data))}}
    /\ root = None
    /\ adj_matrix = <<>>
    /\ mst = <<>>
    /\ i_start = None
    /\ tree = <<>>
    /\ bfs = <<>>
    /\ CatIdle
    /\ mutual_info = <<>>
    /\ OrchIdle

(* lines 115-127 *)
CatSetup ==
    /\ pc = "cat"
    /\ joint_counts' = ZeroCounts(data, NumCategoriesOf(data, num_categories))
    /\ rows_done' = 0
    /\ pc' = "cat_loop"
    /\ UNCHANGED <<root, treevars, data, num_categories, chunk_size,
                   marginals, joints, outers, mutual_info, orchvars>>

(* lines 128-130, one chunk *)
CatChunk ==
    /\ pc = "cat_loop"
    /\ rows_done < NumSamples(data)
    /\ LET C == ChunkSizeOf(data, chunk_size)
           K == NumCategoriesOf(data, num_categories)
       IN  /\ joint_counts' = ScatterAdd(joint_counts, data, ChunkRows(data, rows_done, C), K)
           /\ rows_done' = rows_done + C
    /\ UNCHANGED <<pc, root, treevars, data, num_categories, chunk_size,
                   marginals, joints, outers, mutual_info, orchvars>>

(* lines 131-143 *)
CatFinish ==
    /\ pc = "cat_loop"
    /\ rows_done >= NumSamples(data)
    /\ LET K == NumCategoriesOf(data, num_categories) IN
           /\ marginals' = Marginals(joint_counts, data, K)
           /\ joints' = Joints(joint_counts, data, K)
           /\ outers' = Outers(joint_counts, data, K)
           /\ mutual_info' = MutualInfoOf(Joints(joint_counts, data, K),
                                          Outers(joint_counts, data, K), data, K)
    /\ pc' = "estimated"
    /\ UNCHANGED <<root, treevars, data, num_categories, chunk_size, rows_done, joint_counts,
                   orchvars>>

NextCount == CatSetup \/ CatChunk \/ CatFinish

SpecCount == InitCount /\ [][NextCount]_vars

(* C2: whatever the chunk size, the counts the loop has accumulated are the
   counts of a single chunk holding every row: entry [i, j, a, b] is the
   number of samples with feature i = a and feature j = b. *)
C2_ChunkingKeepsCounts ==
    pc = "estimated" =>
        LET K == NumCategoriesOf(data, num_categories)
            single == ScatterAdd(ZeroCounts(data, K), data, 1 .. NumSamples(data), K)
        IN  /\ joint_counts = single
            /\ joint_counts = CountChunks(ZeroCounts(data, K), data, 0, 1, K)
            /\ \A i \in Features(data), j \in Features(data),
                  a \in 0 .. (K - 1), b \in 0 .. (K - 1) :
                  View(joint_counts, i, j, a, b, K) =
                      Cardinality({s \in 1 .. NumSamples(data) :
                                      Entry(data, s, i) = a /\ Entry(data, s, j) = b})

C2_Witness ==
    /\ pc = "estimated"
    /\ NumSamples(data) = 3
    /\ chunk_size = Some(2)
    /\ rows_done = 4
    /\ NumFeatures(data) = 2
    /\ \E t \in DOMAIN joint_counts : joint_counts[t] = 2

(* C8 as stated: every entry of the smoothed joints, the diagonal blocks
   included, and every entry of the marginal products is strictly positive
   where its logarithm is taken. *)
C8_AllLogArgumentsPositive ==
    pc = "estimated" =>
        /\ \A t \in DOMAIN joints : joints[t] > 0
        /\ \A t \in DOMAIN outers : outers[t] > 0

(* C8 amended: the joints of two different features, the matching-category
   entries of the diagonal blocks and every marginal product are strictly
   positive; the other entries of a diagonal block are exactly zero, and the
   matrix returned is finite off the diagonal and zero on it. *)
C8_LogArgumentsPositiveOffDiagonalBlocks ==
    pc = "estimated" =>
        /\ Denominator(data, NumCategoriesOf(data, num_categories)) > 0
        /\ \A t \in DOMAIN marginals : marginals[t] > 0
        /\ \A t \in DOMAIN outers : outers[t] > 0
        /\ \A t \in DOMAIN joints :
              /\ (t[1] # t[2] \/ t[3] = t[4]) => joints[t] > 0
              /\ (t[1] = t[2] /\ t[3] # t[4]) => joints[t] = 0
        /\ \A i \in 1 .. NumFeatures(data), j \in 1 .. NumFeatures(data) :
              mutual_info[i][j].kind = (IF i = j THEN "zero" ELSE "fin")

C8_Witness ==
    /\ pc = "estimated"
    /\ NumFeatures(data) = 2
    /\ NumCategoriesOf(data, num_categories) = 3
    /\ joint_counts[<<0, 1, 2>>] = 0
    /\ joints[<<0, 1, 0, 2>>] = AlphaNum
    /\ joints[<<0, 0, 0, 1>>] = 0
    /\ mutual_info[1][2].kind = "fin"

(***************************************************************************)
(* Gaussian mutual information (lines 60 and 173) and                      *)
(* _heterogeneous_mutual_info                                              *)
(***************************************************************************)
RECURSIVE SumOver(_, _)
SumOver(S, f) ==
    IF S = {} THEN 0
    ELSE LET x == CHOOSE y \in S : TRUE IN f[x] + SumOver(S \ {x}, f)

(* |S|^2 times the covariance of columns i and j over the rows S *)
Covariance(d, S, i, j) ==
    Cardinality(S) * SumOver(S, [s \in S |-> Entry(d, s, i) * Entry(d, s, j)])
        - SumOver(S, [s \in S |-> Entry(d, s, i)]) * SumOver(S, [s \in S |-> Entry(d, s, j)])

Rows(d) == 1 .. NumSamples(d)

(* -0.5 * log(1 - rho^2) for rho^2 = num / den; 0 / 0 is NaN, log(0) is -inf *)
GaussianFormula(num, den) ==
    IF den = 0 THEN NaN
    ELSE IF num = den THEN Inf
    ELSE IF num = 0 THEN Zero
    ELSE Fin(<<num, den>>)

(* torch.corrcoef entry [i, j], squared, as num / den *)
CorrSquared(d, i, j) ==
    [num |-> Covariance(d, Rows(d), i, j) * Covariance(d, Rows(d), i, j),
     den |-> Covariance(d, Rows(d), i, i) * Covariance(d, Rows(d), j, j)]

(* line 60: -0.5 * torch.log(1 - torch.corrcoef(data.t()) ** 2) *)
GaussianMutualInfo(d) ==
    [i \in 1 .. NumFeatures(d) |-> [j \in 1 .. NumFeatures(d) |->
        GaussianFormula(CorrSquared(d, i - 1, j - 1).num, CorrSquared(d, i - 1, j - 1).den)]]

(* line 173: the same with corrcoef(...).fill_diagonal_(0) before squaring *)
GaussianBlockEntry(d, i, j) ==
    IF i = j THEN GaussianFormula(0, 1)
    ELSE GaussianFormula(CorrSquared(d, i, j).num, CorrSquared(d, i, j).den)

(* lines 181-182: gaussian_entropy of column c over the rows S; the variance
   of no rows is NaN, and epsilon keeps the logarithm finite otherwise *)
GaussianEntropy(d, S, c) ==
    IF S = {} THEN NaN
    ELSE Fin(<<Covariance(d, S, c, c), Cardinality(S) * Cardinality(S)>>)

(* line 185 *)
CategoriesOfColumn(d, i) == MaxEntry(d, {i}) + 1
(* line 199: the rows where column i holds k *)
Bucket(d, i, k) == {s \in Rows(d) : Entry(d, s, i) = k}

(* lines 193-204: entropy - sum(h_C_given_D * p_D); a NaN term makes the sum NaN *)
CrossMutualInfo(d, c, i) ==
    LET K == CategoriesOfColumn(d, i)
        h == [k \in 0 .. (K - 1) |-> GaussianEntropy(d, Bucket(d, i, k), c)]
    IN  IF \E k \in 0 .. (K - 1) : h[k].kind = "nan" THEN NaN
        ELSE Fin(<<GaussianEntropy(d, Rows(d), c).of,
                   [k \in 0 .. (K - 1) |-> <<Cardinality(Bucket(d, i, k)), h[k].of>>]>>)

(* data[:, cols] *)
Columns(d, cols) ==
    LET order == SortedSeq(cols)
    IN  [s \in 1 .. NumSamples(d) |-> [k \in 1 .. Len(order) |-> Entry(d, s, order[k])]]
PositionIn(cols, i) == Cardinality({x \in cols : x <= i})

(* lines 165-207, the whole function *)
HeterogeneousMutualInfo(d, mask) ==
    LET continuous == {i \in Features(d) : ~mask[i + 1]}
        discrete == {i \in Features(d) : mask[i + 1]}
        block == IF Cardinality(discrete) > 1
                 THEN CategoricalMutualInfo(Columns(d, discrete), None, None)
                 ELSE <<>>
        entry(i, j) ==
            IF i \in continuous /\ j \in continuous
            THEN IF Cardinality(continuous) > 1 THEN GaussianBlockEntry(d, i, j) ELSE Zero
            ELSE IF i \in discrete /\ j \in discrete
            THEN IF Cardinality(discrete) > 1
                 THEN block[PositionIn(discrete, i)][PositionIn(discrete, j)]
                 ELSE Zero
            ELSE IF i \in continuous THEN CrossMutualInfo(d, i, j)
            ELSE CrossMutualInfo(d, j, i)
    IN  FillDiagonalZero([i \in 1 .. NumFeatures(d) |-> [j \in 1 .. NumFeatures(d) |->
                             entry(i - 1, j - 1)]])

(***************************************************************************)
(* ChowLiuTree                                                             *)
(***************************************************************************)
CallValues == {0, 1, 2}
CallTags == {"categorical", "gaussian", "poisson"}
LayerNames == {"categorical", "gaussian"}

(* lines 46-47 *)
ValidArgumentsNoLowerBound(ndim, r, d) ==
    /\ ndim = 2
    /\ IF r = None THEN TRUE ELSE Val(r) < NumFeatures(d)
ValidArguments(ndim, r, d) ==
    /\ ndim = 2
    /\ IF r = None THEN TRUE ELSE -1 < Val(r) /\ Val(r) < NumFeatures(d)

(* line 49 *)
CategoricalMask(t) == [k \in 1 .. Len(t.layers) |-> t.layers[k] = "categorical"]

(* line 54: torch.div(data, num_categories // num_bins, rounding_mode="floor") *)
BinWidth(K, B) == K \div B
Rescale(d, K, B) ==
    [s \in 1 .. NumSamples(d) |-> [k \in 1 .. NumFeatures(d) |-> d[s][k] \div BinWidth(K, B)]]

InitCall ==
    /\ pc = "call"
    /\ data_ndim \in {2, 3}
    /\ data \in DataMatrices(3, 2, CallValues)
    /\ input_type \in {Tag(t) : t \in CallTags} \cup {Layers(l) : l \in [1 .. 2 -> LayerNames]}
    /\ root \in {None, Some(-1), Some(1), Some(2)}
    /\ num_categories \in {None, Some(SetMax(CallValues) + 1)}
    /\ num_bins \in {None} \cup {Some(b) : b \in 1 .. SetMax(CallValues)}
    /\ chunk_size = None
    /\ outcome = "running"
    /\ ran = {}
    /\ adj_matrix = <<>>
    /\ mst = <<>>
    /\ i_start = None
    /\ tree = <<>>
    /\ bfs = <<>>
    /\ CatIdle
    /\ mutual_info = <<>>

Raise(e) ==
    /\ outcome' = e
    /\ pc' = "raised"
    /\ UNCHANGED <<root, treevars, data, num_categories, chunk_size, catvars, mutual_info,
                   data_ndim, input_type, num_bins, ran>>

Estimated(name, mi) ==
    /\ mutual_info' = mi
    /\ ran' = ran \cup {name}
    /\ pc' = "estimated"
    /\ UNCHANGED <<root, treevars, data, num_categories, chunk_size, catvars,
                   data_ndim, input_type, num_bins, outcome>>

(* lines 46-47: a failed assert *)
AssertFails ==
    /\ pc = "call"
    /\ ~ValidArguments(data_ndim, root, data)
    /\ Raise("AssertionError")

(* lines 48-49 *)
DispatchHeterogeneous ==
    /\ pc = "call"
    /\ ValidArguments(data_ndim, root, data)
    /\ input_type.list
    /\ Estimated("heterogeneous", HeterogeneousMutualInfo(data, CategoricalMask(input_type)))

(* lines 50-53 *)
BinsWithoutCategories ==
    /\ pc = "call"
    /\ ValidArguments(data_ndim, root, data)
    /\ ~input_type.list /\ input_type.tag = "categorical"
    /\ num_bins # None /\ num_categories = None
    /\ Raise("ValueError")

(* lines 50-57: the call of _categorical_mutual_info, after the rescaling *)
DispatchCategorical ==
    /\ pc = "call"
    /\ ValidArguments(data_ndim, root, data)
    /\ ~input_type.list /\ input_type.tag = "categorical"
    /\ ~(num_bins # None /\ num_categories = None)
    /\ data' = IF num_bins # None
               THEN Rescale(data, Val(num_categories), Val(num_bins))
               ELSE data
    /\ ran' = ran \cup {"categorical"}
    /\ pc' = "cat"
    /\ UNCHANGED <<root, treevars, num_categories, chunk_size, catvars, mutual_info,
                   data_ndim, input_type, num_bins, outcome>>

(* lines 58-60 *)
DispatchGaussian ==
    /\ pc = "call"
    /\ ValidArguments(data_ndim, root, data)
    /\ ~input_type.list /\ input_type.tag = "gaussian"
    /\ Estimated("gaussian", GaussianMutualInfo(data))

(* lines 61-62 *)
Unsupported ==
    /\ pc = "call"
    /\ ValidArguments(data_ndim, root, data)
    /\ ~input_type.list /\ input_type.tag \notin {"categorical", "gaussian"}
    /\ Raise("NotImplementedError")

(* line 64: mutual_info is handed to _maximum_spanning_tree *)
CallTreeBuilder ==
    /\ pc = "estimated"
    /\ ran # {}
    /\ adj_matrix' = mutual_info
    /\ ran' = ran \cup {"tree"}
    /\ pc' = "spanning"
    /\ UNCHANGED <<root, mst, i_start, tree, bfs, data, num_categories, chunk_size, catvars,
                   mutual_info, data_ndim, input_type, num_bins, outcome>>

NextCall ==
    \/ AssertFails
    \/ DispatchHeterogeneous
    \/ BinsWithoutCategories
    \/ DispatchCategorical
    \/ DispatchGaussian
    \/ Unsupported
    \/ CatSetup
    \/ CatChunk
    \/ CatFinish
    \/ CallTreeBuilder

SpecCall == InitCall /\ [][NextCall]_vars

OnCategoricalPath == ~input_type.list /\ input_type.tag = "categorical"

(* C5: with 1 <= num_bins < num_categories on the categorical path, every
   rescaled code lies in [0, num_bins). *)
C5_RescaledCodesBelowNumBins ==
    (/\ pc = "cat"
     /\ "categorical" \in ran
     /\ num_bins # None /\ num_categories # None
     /\ Val(num_bins) < Val(num_categories)) =>
        \A s \in Rows(data), i \in Features(data) :
            Entry(data, s, i) \in 0 .. (Val(num_bins) - 1)

(* The failure an invalid call ends in, by the order of the checks. *)
BadAssertion == data_ndim # 2 \/ (root # None /\ Val(root) \notin Features(data))
BadBins == num_bins # None /\ num_categories = None
BadTag == ~input_type.list /\ input_type.tag \notin {"categorical", "gaussian"}

(* C6 as stated: a call with any invalid argument, num_bins without
   num_categories on any path included, runs no estimator and no tree
   builder and ends in a failure. *)
C6_InvalidCallFailsFast ==
    (BadAssertion \/ BadBins \/ BadTag) =>
        /\ ran = {}
        /\ pc \in {"call", "raised"}
        /\ pc = "raised" =>
              outcome \in {"AssertionError", "ValueError", "NotImplementedError"}

(* C6 amended: num_bins without num_categories is invalid on the
   'categorical' path only; every such invalid call runs nothing and ends in
   the failure of the first check it fails. *)
C6_InvalidCallFailsFastOnItsPath ==
    (BadAssertion \/ (BadBins /\ OnCategoricalPath) \/ BadTag) =>
        /\ ran = {}
        /\ pc \in {"call", "raised"}
        /\ pc = "raised" =>
              outcome = (IF BadAssertion THEN "AssertionError"
                         ELSE IF BadTag THEN "NotImplementedError"
                         ELSE "ValueError")

C6_Witness ==
    /\ pc = "raised"
    /\ outcome = "ValueError"
    /\ input_type = Tag("categorical")
    /\ num_bins = Some(2) /\ num_categories = None
    /\ root = Some(1)
    /\ ran = {}

IsZero(x) == x.kind = "zero"
SameValue(x, y) == x.kind = y.kind /\ (x.kind = "fin" => x.of = y.of)

Varies(d, i) == \E s \in Rows(d), t \in Rows(d) : Entry(d, s, i) # Entry(d, t, i)

(* C7: on every dispatch path the matrix handed to _maximum_spanning_tree is
   symmetric and has an exactly zero diagonal (stated for data none of whose
   columns is constant, so that every correlation is defined). *)
C7_SymmetricZeroDiagonal ==
    (pc = "spanning" /\ \A i \in Features(data) : Varies(data, i)) =>
        \A i \in 1 .. Len(adj_matrix), j \in 1 .. Len(adj_matrix) :
            /\ SameValue(adj_matrix[i][j], adj_matrix[j][i])
            /\ i = j => IsZero(adj_matrix[i][j])

(* C9: in the heterogeneous estimator, the cross mutual information of a
   continuous column and a discrete column with an empty category is finite. *)
C9_EmptyCategoryStaysFinite ==
    (pc = "estimated" /\ "heterogeneous" \in ran) =>
        \A c \in Features(data), i \in Features(data) :
            (/\ input_type.layers[c + 1] # "categorical"
             /\ input_type.layers[i + 1] = "categorical"
             /\ \E k \in 0 .. MaxEntry(data, {i}) : Bucket(data, i, k) = {}) =>
                mutual_info[c + 1][i + 1].kind \in {"zero", "fin"}

====
